---- MODULE Spec2Model ----
(***************************************************************************)
(* A model of astr-rs (src/src/lib.rs): AStr<LEN>, a [u8; LEN] that always *)
(* holds valid UTF-8, its constructors, repeat, concat, and the private    *)
(* FmtBuilder behind AStr::try_from_fmt.                                   *)
(*                                                                         *)
(* Bytes are integers 0..255, a byte slice or array is a sequence of       *)
(* bytes, a char is its code point.  An AStr<LEN> value is the record      *)
(* [LEN |-> LEN, bytes |-> the array]: LEN is the const generic parameter  *)
(* of the type, bytes the field `.0`.                                      *)
(***************************************************************************)
EXTENDS Integers, Sequences, FiniteSets, TLC

(***************************************************************************)
(* Bounds of the model.                                                    *)
(***************************************************************************)
\* the largest capacity LEN a call is made with; also the longest text
MaxLen == 4
\* the longest byte slice drawn from the whole byte alphabet
MaxSlice == 3
\* the most write_str calls one producer makes
MaxWrites == 5
\* usize::MAX, scaled down so that checked_add can overflow
USIZE_MAX == 15

(***************************************************************************)
(* Integer helpers: Rust's >>, & and | on unsigned integers, and `as u8`.  *)
(***************************************************************************)
RECURSIVE Pow2(_)
Pow2(k) == IF k = 0 THEN 1 ELSE 2 * Pow2(k - 1)

Shr(x, k) == x \div Pow2(k)

RECURSIVE BitAnd(_, _)
BitAnd(x, y) ==
    IF x = 0 \/ y = 0 THEN 0
    ELSE (IF x % 2 = 1 /\ y % 2 = 1 THEN 1 ELSE 0) + 2 * BitAnd(x \div 2, y \div 2)

RECURSIVE BitOr(_, _)
BitOr(x, y) ==
    IF x = 0 THEN y
    ELSE IF y = 0 THEN x
    ELSE (IF x % 2 = 1 \/ y % 2 = 1 THEN 1 ELSE 0) + 2 * BitOr(x \div 2, y \div 2)

AsU8(x) == x % 256

(***************************************************************************)
(* core::str::from_utf8: the validity of a byte sequence as UTF-8          *)
(* (the well-formed byte sequences of the Unicode standard, as the std     *)
(* validator accepts them).                                                *)
(***************************************************************************)
IsCont(b) == b >= 128 /\ b <= 191

\* the width of the sequence a leading byte announces, 0 for an invalid lead
Utf8Width(b) ==
    IF b < 128 THEN 1
    ELSE IF b >= 194 /\ b <= 223 THEN 2
    ELSE IF b >= 224 /\ b <= 239 THEN 3
    ELSE IF b >= 240 /\ b <= 244 THEN 4
    ELSE 0

\* the range the second byte of a sequence led by b must lie in
SecondLo(b) == IF b = 224 THEN 160 ELSE IF b = 240 THEN 144 ELSE 128
SecondHi(b) == IF b = 237 THEN 159 ELSE IF b = 244 THEN 143 ELSE 191

RECURSIVE ValidFrom(_, _)
ValidFrom(v, i) ==
    IF i > Len(v) THEN TRUE
    ELSE LET w == Utf8Width(v[i]) IN
         /\ w # 0
         /\ i + w - 1 <= Len(v)
         /\ w >= 2 => (v[i + 1] >= SecondLo(v[i]) /\ v[i + 1] <= SecondHi(v[i]))
         /\ \A k \in 2..(w - 1) : IsCont(v[i + k])
         /\ ValidFrom(v, i + w)

core_str_from_utf8(v) == IF ValidFrom(v, 1) THEN "Ok" ELSE "Utf8"

\* str::is_char_boundary(index), index counted from 0
is_char_boundary(s, index) ==
    IF index = 0 THEN TRUE
    ELSE IF index >= Len(s) THEN index = Len(s)
    ELSE ~IsCont(s[index + 1])

(***************************************************************************)
(* char::len_utf8 and encode_utf8_raw.                                     *)
(***************************************************************************)
TAG_CONT == 128
TAG_TWO_B == 192
TAG_THREE_B == 224
TAG_FOUR_B == 240

len_utf8(c) ==
    IF c < 128 THEN 1
    ELSE IF c < 2048 THEN 2
    ELSE IF c < 65536 THEN 3
    ELSE 4

\* encode_utf8_raw with the 3-byte mask 0x0F copied into the 4-byte arm's second byte
encode_utf8_raw_mask(c) ==
    LET len == len_utf8(c)
        code == c
    IN CASE len = 1 -> << AsU8(code), 0, 0, 0 >>
         [] len = 2 -> << BitOr(AsU8(BitAnd(Shr(code, 6), 31)), TAG_TWO_B),
                          BitOr(AsU8(BitAnd(code, 63)), TAG_CONT),
                          0, 0 >>
         [] len = 3 -> << BitOr(AsU8(BitAnd(Shr(code, 12), 15)), TAG_THREE_B),
                          BitOr(AsU8(BitAnd(Shr(code, 6), 63)), TAG_CONT),
                          BitOr(AsU8(BitAnd(code, 63)), TAG_CONT),
                          0 >>
         [] len = 4 -> << BitOr(AsU8(BitAnd(Shr(code, 18), 7)), TAG_FOUR_B),
                          BitOr(AsU8(BitAnd(Shr(code, 12), 15)), TAG_CONT),
                          BitOr(AsU8(BitAnd(Shr(code, 6), 63)), TAG_CONT),
                          BitOr(AsU8(BitAnd(code, 63)), TAG_CONT) >>

encode_utf8_raw(c) ==
    LET len == len_utf8(c)
        code == c
    IN CASE len = 1 -> << AsU8(code), 0, 0, 0 >>
         [] len = 2 -> << BitOr(AsU8(BitAnd(Shr(code, 6), 31)), TAG_TWO_B),
                          BitOr(AsU8(BitAnd(code, 63)), TAG_CONT),
                          0, 0 >>
         [] len = 3 -> << BitOr(AsU8(BitAnd(Shr(code, 12), 15)), TAG_THREE_B),
                          BitOr(AsU8(BitAnd(Shr(code, 6), 63)), TAG_CONT),
                          BitOr(AsU8(BitAnd(code, 63)), TAG_CONT),
                          0 >>
         [] len = 4 -> << BitOr(AsU8(BitAnd(Shr(code, 18), 7)), TAG_FOUR_B),
                          BitOr(AsU8(BitAnd(Shr(code, 12), 63)), TAG_CONT),
                          BitOr(AsU8(BitAnd(Shr(code, 6), 63)), TAG_CONT),
                          BitOr(AsU8(BitAnd(code, 63)), TAG_CONT) >>

(***************************************************************************)
(* Results.  A call returns Ok(value), an error value (AStrError::Utf8,    *)
(* AStrError::Slice, fmt::Error), or panics.                               *)
(***************************************************************************)
NoVal == [LEN |-> 0, bytes |-> << >>]
Ok(v) == [kind |-> "Ok", val |-> v]
Err(e) == [kind |-> e, val |-> NoVal]
Panic == [kind |-> "Panic", val |-> NoVal]

\* Result::unwrap
unwrap(r) == IF r.kind = "Ok" THEN r ELSE Panic

\* <&[u8; LEN]>::try_from(slice): the length check of slice.try_into()
try_into(LEN, slice) == IF Len(slice) = LEN THEN "Ok" ELSE "Slice"

(***************************************************************************)
(* impl AStr<LEN>: constructors and views.                                 *)
(***************************************************************************)
from_utf8_array_unchecked(LEN, arr) == [LEN |-> LEN, bytes |-> arr]

\* try_from_utf8_array_ref validating with is_ascii instead of from_utf8
try_from_utf8_array_ref_ascii(LEN, arr) ==
    IF \E i \in 1..Len(arr) : arr[i] >= 128 THEN Err("Utf8")
    ELSE Ok(from_utf8_array_unchecked(LEN, arr))

try_from_utf8_array_ref(LEN, arr) ==
    IF core_str_from_utf8(arr) # "Ok" THEN Err("Utf8")
    ELSE Ok(from_utf8_array_unchecked(LEN, arr))

try_from_utf8_array_mut(LEN, arr) ==
    IF core_str_from_utf8(arr) # "Ok" THEN Err("Utf8")
    ELSE Ok(from_utf8_array_unchecked(LEN, arr))

\* try_from_utf8 validating before it checks the length
try_from_utf8_validate_first(LEN, slice) ==
    IF core_str_from_utf8(slice) # "Ok" THEN Err("Utf8")
    ELSE IF try_into(LEN, slice) # "Ok" THEN Err("Slice")
    ELSE Ok(from_utf8_array_unchecked(LEN, slice))

try_from_utf8(LEN, slice) ==
    IF try_into(LEN, slice) # "Ok" THEN Err("Slice")
    ELSE try_from_utf8_array_ref(LEN, slice)

from_utf8(LEN, slice) == unwrap(try_from_utf8(LEN, slice))

try_from_utf8_mut(LEN, slice) ==
    IF try_into(LEN, slice) # "Ok" THEN Err("Slice")
    ELSE try_from_utf8_array_mut(LEN, slice)

from_utf8_mut(LEN, slice) == unwrap(try_from_utf8_mut(LEN, slice))

\* try_from_str_ref unwrapping the conversion instead of returning its error
try_from_str_ref_unwrap(LEN, str) ==
    IF try_into(LEN, str) # "Ok" THEN Panic
    ELSE Ok(from_utf8_array_unchecked(LEN, str))

\* str is a text slice: its bytes, str.as_bytes(), are valid UTF-8
try_from_str_ref(LEN, str) ==
    IF try_into(LEN, str) # "Ok" THEN Err("Slice")
    ELSE Ok(from_utf8_array_unchecked(LEN, str))

from_str_ref(LEN, str) == unwrap(try_from_str_ref(LEN, str))

try_from_str_mut(LEN, str) ==
    IF try_into(LEN, str) # "Ok" THEN Err("Slice")
    ELSE Ok(from_utf8_array_unchecked(LEN, str))

from_str_mut(LEN, str) == unwrap(try_from_str_mut(LEN, str))

\* impl TryFrom<&str> for AStr<LEN>, FromStr, TryFrom<String>: Ok(*try_from_str_ref(str)?)
try_from_str(LEN, str) ==
    LET r == try_from_str_ref(LEN, str)
    IN IF r.kind # "Ok" THEN r ELSE Ok(r.val)

\* impl Default for AStr<0>
default == [LEN |-> 0, bytes |-> << >>]

as_bytes(v) == v.bytes

\* core::str::from_utf8_unchecked(self.as_bytes()): the same bytes, viewed as text
as_str(v) == as_bytes(v)

\* AStr::len
astr_len(v) == Len(as_str(v))

\* repeat filling with the first byte of the encoding only, as repeat_byte does
repeat_first_byte(LEN, c) ==
    LET char_len == len_utf8(c)
        char_bytes == encode_utf8_raw(c)
    IN IF LEN % char_len # 0 THEN Panic
       ELSE Ok(from_utf8_array_unchecked(LEN, [i \in 1..LEN |-> char_bytes[1]]))

repeat(LEN, c) ==
    LET char_len == len_utf8(c)
        char_bytes == encode_utf8_raw(c)
    IN IF LEN % char_len # 0 THEN Panic
       ELSE Ok(from_utf8_array_unchecked(LEN,
                   [i \in 1..LEN |-> char_bytes[((i - 1) % char_len) + 1]]))

\* the copy loops with the operands confused: other first, then self
concat_unchecked_swapped(self, other, RET_LEN) ==
    LET a_bytes == as_bytes(self)
        b_bytes == as_bytes(other)
    IN IF other.LEN > RET_LEN \/ RET_LEN - other.LEN > self.LEN THEN Panic
       ELSE Ok(from_utf8_array_unchecked(RET_LEN,
                   [i \in 1..RET_LEN |->
                       IF i <= other.LEN THEN b_bytes[i] ELSE a_bytes[i - other.LEN]]))

\* the two copy loops; an index past the end of ret or of b_bytes panics
concat_unchecked(self, other, RET_LEN) ==
    LET a_bytes == as_bytes(self)
        b_bytes == as_bytes(other)
    IN IF self.LEN > RET_LEN \/ RET_LEN - self.LEN > other.LEN THEN Panic
       ELSE Ok(from_utf8_array_unchecked(RET_LEN,
                   [i \in 1..RET_LEN |->
                       IF i <= self.LEN THEN a_bytes[i] ELSE b_bytes[i - self.LEN]]))

\* concat with its assert! left out
concat_no_assert(self, other, RET_LEN) == concat_unchecked(self, other, RET_LEN)

concat(self, other, RET_LEN) ==
    IF self.LEN + other.LEN # RET_LEN THEN Panic
    ELSE concat_unchecked(self, other, RET_LEN)

(***************************************************************************)
(* FmtBuilder<LEN>: [LEN, len, partial], and what one write_str call       *)
(* reports: the builder after the call, the result, and the number of      *)
(* bytes copy_from_slice copied.                                           *)
(***************************************************************************)
FmtBuilder_new(LEN) == [LEN |-> LEN, len |-> 0, partial |-> repeat(LEN, 0).val]

\* str::get_mut(offset..) and str::get_mut(..s_len): Some iff on a char boundary
get_mut_from(s, offset) == is_char_boundary(s, offset)
get_mut_to(s, s_len) == is_char_boundary(s, s_len)

\* the copy of write_str, shared by the variants below
CopyAt(bytes, offset, s, n) ==
    [i \in 1..Len(bytes) |-> IF i > offset /\ i <= offset + n THEN s[i - offset] ELSE bytes[i]]

\* write_str storing the new len only once the chunk is known to fit
write_str_check_first(b, s) ==
    LET s_len == Len(s)
        offset == b.len
        sum == offset + s_len
        bytes == b.partial.bytes
    IN IF sum > USIZE_MAX \/ sum > Len(bytes)
       THEN [b |-> b, res |-> "Err", copied |-> 0]
       ELSE [b |-> [b EXCEPT !.len = sum, !.partial.bytes = CopyAt(bytes, offset, s, s_len)],
             res |-> "Ok", copied |-> s_len]

\* write_str adding with wrapping_add instead of checked_add
write_str_wrapping(b, s) ==
    LET s_len == Len(s)
        offset == b.len
        sum == (offset + s_len) % (USIZE_MAX + 1)
        bytes == b.partial.bytes
        b1 == [b EXCEPT !.len = sum]
    IN IF offset > Len(bytes) \/ s_len > Len(bytes) - offset
       THEN [b |-> b1, res |-> "Err", copied |-> 0]
       ELSE [b |-> [b1 EXCEPT !.partial.bytes = CopyAt(bytes, offset, s, s_len)],
             res |-> "Ok", copied |-> s_len]

\* write_str copying what fits of a chunk that is too long, then failing
write_str_clamped(b, s) ==
    LET s_len == Len(s)
        offset == b.len
        sum == offset + s_len
        bytes == b.partial.bytes
        b1 == [b EXCEPT !.len = sum]
    IN IF sum > USIZE_MAX THEN [b |-> b, res |-> "Err", copied |-> 0]
       ELSE IF offset > Len(bytes) THEN [b |-> b1, res |-> "Err", copied |-> 0]
       ELSE IF s_len > Len(bytes) - offset
       THEN [b |-> [b1 EXCEPT !.partial.bytes = CopyAt(bytes, offset, s, Len(bytes) - offset)],
             res |-> "Err", copied |-> Len(bytes) - offset]
       ELSE [b |-> [b1 EXCEPT !.partial.bytes = CopyAt(bytes, offset, s, s_len)],
             res |-> "Ok", copied |-> s_len]

write_str(b, s) ==
    LET s_len == Len(s)
        offset == b.len
        sum == offset + s_len
    IN IF sum > USIZE_MAX
       THEN [b |-> b, res |-> "Err", copied |-> 0]
       ELSE LET b1 == [b EXCEPT !.len = sum]
                bytes == b.partial.bytes
            IN IF ~get_mut_from(bytes, offset)
               THEN [b |-> b1, res |-> "Err", copied |-> 0]
               ELSE LET rest == SubSeq(bytes, offset + 1, Len(bytes))
                    IN IF ~get_mut_to(rest, s_len)
                       THEN [b |-> b1, res |-> "Err", copied |-> 0]
                       ELSE [b |-> [b1 EXCEPT !.partial.bytes = CopyAt(bytes, offset, s, s_len)],
                             res |-> "Ok", copied |-> s_len]

\* finalize accepting a builder that is not full
finalize_short(b) == IF b.len <= b.LEN THEN Ok(b.partial) ELSE Err("fmt::Error")

finalize(b) == IF b.len = b.LEN THEN Ok(b.partial) ELSE Err("fmt::Error")

(***************************************************************************)
(* AStr::try_from_fmt(display).  The Display value is the producer: it     *)
(* streams `chunks` into the builder with write_str.  A producer that      *)
(* propagates stops at the first write error and returns it; one that      *)
(* does not keeps writing and returns Ok.  write!(..)? returns the         *)
(* producer's error, otherwise the builder is finalized.                   *)
(***************************************************************************)
RECURSIVE Feed(_, _, _)
Feed(b, chunks, propagate) ==
    IF chunks = << >> THEN [b |-> b, res |-> "Ok"]
    ELSE LET w == write_str(b, Head(chunks))
         IN IF w.res = "Err" /\ propagate THEN [b |-> w.b, res |-> "Err"]
            ELSE Feed(w.b, Tail(chunks), propagate)

try_from_fmt(LEN, chunks, propagate) ==
    LET f == Feed(FmtBuilder_new(LEN), chunks, propagate)
    IN IF f.res = "Err" THEN Err("fmt::Error") ELSE finalize(f.b)

(***************************************************************************)
(* Inputs.  StdEnc is the UTF-8 encoding of the sample characters as the   *)
(* Unicode standard tabulates it: U+0000, 'a', U+007F, U+0080, 'ä',        *)
(* U+07FF, U+0800, '€', U+FFFF, U+10000, U+1F600, U+10FFFF.                *)
(***************************************************************************)
StdEnc(c) ==
    CASE c = 0       -> << 0 >>
      [] c = 97      -> << 97 >>
      [] c = 127     -> << 127 >>
      [] c = 128     -> << 194, 128 >>
      [] c = 228     -> << 195, 164 >>
      [] c = 2047    -> << 223, 191 >>
      [] c = 2048    -> << 224, 160, 128 >>
      [] c = 8364    -> << 226, 130, 172 >>
      [] c = 65535   -> << 239, 191, 191 >>
      [] c = 65536   -> << 240, 144, 128, 128 >>
      [] c = 128512  -> << 240, 159, 152, 128 >>
      [] c = 1114111 -> << 244, 143, 191, 191 >>

\* the characters repeat is called with
Chars == {0, 97, 127, 128, 228, 2047, 2048, 8364, 65535, 65536, 128512, 1114111}

\* the characters texts (str values, write_str chunks) are made of
TextChars == {97, 228, 8364}

Lens == 0..MaxLen

\* the texts of byte length exactly n
RECURSIVE TextsOfLen(_)
TextsOfLen(n) ==
    IF n = 0 THEN { << >> }
    ELSE UNION { { StdEnc(c) \o t : t \in TextsOfLen(n - Len(StdEnc(c))) } :
                 c \in { d \in TextChars : Len(StdEnc(d)) <= n } }

\* the texts of byte length at most MaxLen
Texts == UNION { TextsOfLen(n) : n \in 0..MaxLen }

\* the bytes slices are made of: ASCII, leads of 2, 3 and 4 bytes, continuations
\* below and above 0xA0, the leads E0 and ED with a restricted second byte, 0xFF
ByteAlphabet == {97, 195, 164, 130, 226, 224, 237, 255}

RECURSIVE SeqsUpTo(_, _)
SeqsUpTo(S, n) ==
    IF n = 0 THEN { << >> }
    ELSE LET shorter == SeqsUpTo(S, n - 1)
         IN shorter \cup { Append(s, x) : s \in { r \in shorter : Len(r) = n - 1 }, x \in S }

\* 4-byte sequences: valid, overlong, above U+10FFFF, truncated, the largest scalar
LongSlices ==
    { << 240, 159, 152, 128 >>, << 240, 130, 152, 128 >>, << 244, 164, 128, 128 >>,
      << 240, 159, 152 >>, << 244, 143, 191, 191 >>, << 97, 226, 130, 172 >>,
      << 195, 164, 195, 40 >> }

Slices == SeqsUpTo(ByteAlphabet, MaxSlice) \cup LongSlices \cup Texts

\* The inputs of the specification in which values flow between calls: a few
\* characters, slices and texts of each kind, and what a producer streams:
\* one text, or two characters.
FlowChars == {0, 228, 128512}

FlowSlices ==
    { << >>, << 97 >>, << 195, 164 >>, << 164 >>, << 97, 255 >>, << 240, 159, 152, 128 >>,
      << 240, 130, 152, 128 >> }

FlowTexts == { t \in Texts : 2 * Len(t) <= MaxLen } \cup { << 97, 226, 130, 172 >> }

Displays ==
    { << s >> : s \in FlowTexts } \cup { << StdEnc(c), StdEnc(228) >> : c \in TextChars }

\* the chunks a producer followed write by write passes to write_str
Chunks == Texts \cup { << 0 >> }

(***************************************************************************)
(* State.                                                                  *)
(*   inp      the runtime input at hand, [LEN, bytes], when the            *)
(*            constructors are all applied to one input                    *)
(*   a        a value the caller keeps from an earlier call                *)
(*   call     the most recent call: operation, LEN, arguments, outcome     *)
(*   pc       where try_from_fmt stands when its producer is followed      *)
(*            write by write: "idle", "writing", "returned", "done"        *)
(*   builder  the FmtBuilder of that call, and its LEN                     *)
(*   hist     what the producer did so far (history, not program state):   *)
(*            good: the chunks whose write returned Ok, joined;            *)
(*            copied: the bytes copy_from_slice copied; total: the bytes   *)
(*            passed to write_str; failed: a write returned Err; nw: the   *)
(*            writes made; last: the last write; ret: what the producer    *)
(*            returned                                                     *)
(***************************************************************************)
VARIABLES inp, a, call, pc, builder, hist

vars == << inp, a, call, pc, builder, hist >>

Call(op, LEN, arg, out) == [op |-> op, LEN |-> LEN, arg |-> arg, out |-> out]

NoCall == Call("none", 0, << >>, Err("none"))

NoInput == [LEN |-> 0, bytes |-> << >>, c |-> 0]

NoWrite == [res |-> "none", s_len |-> 0, offset |-> 0, before |-> << >>]

NoHist == [good |-> << >>, copied |-> 0, total |-> 0, failed |-> FALSE, nw |-> 0,
           last |-> NoWrite, ret |-> "none"]

NoBuilder == [LEN |-> 0, len |-> 0, partial |-> NoVal]

Init ==
    /\ inp = NoInput
    /\ a = default
    /\ call = NoCall
    /\ pc = "idle"
    /\ builder = NoBuilder
    /\ hist = NoHist

\* a call that is one step: it leaves the kept value and the builder alone
Returns(op, LEN, arg, out) ==
    /\ pc = "idle"
    /\ call' = Call(op, LEN, arg, out)
    /\ UNCHANGED << inp, a, pc, builder, hist >>

(***************************************************************************)
(* The constructors over runtime input, one action each.                   *)
(* An array argument has the length LEN by its type; a str argument is     *)
(* valid UTF-8 by its type.                                                *)
(***************************************************************************)
TryFromUtf8ArrayRef(LEN, arr) ==
    /\ Len(arr) = LEN
    /\ Returns("try_from_utf8_array_ref", LEN, arr, try_from_utf8_array_ref(LEN, arr))

TryFromUtf8ArrayMut(LEN, arr) ==
    /\ Len(arr) = LEN
    /\ Returns("try_from_utf8_array_mut", LEN, arr, try_from_utf8_array_mut(LEN, arr))

TryFromUtf8(LEN, slice) ==
    Returns("try_from_utf8", LEN, slice, try_from_utf8(LEN, slice))

FromUtf8(LEN, slice) ==
    Returns("from_utf8", LEN, slice, from_utf8(LEN, slice))

TryFromUtf8Mut(LEN, slice) ==
    Returns("try_from_utf8_mut", LEN, slice, try_from_utf8_mut(LEN, slice))

FromUtf8Mut(LEN, slice) ==
    Returns("from_utf8_mut", LEN, slice, from_utf8_mut(LEN, slice))

IsStr(s) == ValidFrom(s, 1)

TryFromStrRef(LEN, str) ==
    /\ IsStr(str)
    /\ Returns("try_from_str_ref", LEN, str, try_from_str_ref(LEN, str))

FromStrRef(LEN, str) ==
    /\ IsStr(str)
    /\ Returns("from_str_ref", LEN, str, from_str_ref(LEN, str))

TryFromStrMut(LEN, str) ==
    /\ IsStr(str)
    /\ Returns("try_from_str_mut", LEN, str, try_from_str_mut(LEN, str))

FromStrMut(LEN, str) ==
    /\ IsStr(str)
    /\ Returns("from_str_mut", LEN, str, from_str_mut(LEN, str))

TryFromStr(LEN, str) ==
    /\ IsStr(str)
    /\ Returns("try_from_str", LEN, str, try_from_str(LEN, str))

TryFromFmt(LEN, chunks, propagate) ==
    /\ \A k \in 1..Len(chunks) : IsStr(chunks[k])
    /\ Returns("try_from_fmt", LEN, [chunks |-> chunks, propagate |-> propagate],
               try_from_fmt(LEN, chunks, propagate))

(***************************************************************************)
(* The constructors over values the program already holds.                 *)
(***************************************************************************)
Default == Returns("default", 0, << >>, Ok(default))

Repeat(LEN, c) == Returns("repeat", LEN, c, repeat(LEN, c))

\* the values at hand: the kept one and the one the last call returned
Held == {a} \cup (IF call.out.kind = "Ok" THEN {call.out.val} ELSE {})

Concat(self, other, RET_LEN) ==
    /\ self \in Held
    /\ other \in Held
    /\ Returns("concat", RET_LEN, [self |-> self, other |-> other],
               concat(self, other, RET_LEN))

\* the caller keeps the value the last call returned (a short one: two kept
\* values joined still have a length in Lens)
Keep ==
    /\ pc = "idle"
    /\ call.out.kind = "Ok"
    /\ 2 * call.out.val.LEN <= MaxLen
    /\ a' = call.out.val
    /\ UNCHANGED << inp, call, pc, builder, hist >>

Next ==
    \/ Default
    \/ \E LEN \in Lens, c \in FlowChars : Repeat(LEN, c)
    \/ \E self \in Held, other \in Held, RET_LEN \in 0..(MaxLen + 2) : Concat(self, other, RET_LEN)
    \/ Keep
    \/ \E LEN \in Lens, arr \in FlowSlices : TryFromUtf8ArrayRef(LEN, arr)
    \/ \E LEN \in Lens, slice \in FlowSlices : TryFromUtf8(LEN, slice)
    \/ \E LEN \in Lens, str \in FlowTexts : TryFromStr(LEN, str)
    \/ \E LEN \in Lens, chunks \in Displays, propagate \in BOOLEAN : TryFromFmt(LEN, chunks, propagate)

Spec == Init /\ [][Next]_vars

(***************************************************************************)
(* Every constructor over runtime input, and repeat, applied to one input: *)
(* a LEN with a byte slice, or a LEN with a character.                     *)
(***************************************************************************)
InitCtor ==
    /\ inp \in [LEN : Lens, bytes : Slices, c : {0}] \cup [LEN : Lens, bytes : {<< >>}, c : Chars]
    /\ a = default
    /\ call = NoCall
    /\ pc = "idle"
    /\ builder = NoBuilder
    /\ hist = NoHist

NextCtor ==
    \/ TryFromUtf8ArrayRef(inp.LEN, inp.bytes)
    \/ TryFromUtf8ArrayMut(inp.LEN, inp.bytes)
    \/ TryFromUtf8(inp.LEN, inp.bytes)
    \/ FromUtf8(inp.LEN, inp.bytes)
    \/ TryFromUtf8Mut(inp.LEN, inp.bytes)
    \/ FromUtf8Mut(inp.LEN, inp.bytes)
    \/ TryFromStrRef(inp.LEN, inp.bytes)
    \/ FromStrRef(inp.LEN, inp.bytes)
    \/ TryFromStrMut(inp.LEN, inp.bytes)
    \/ FromStrMut(inp.LEN, inp.bytes)
    \/ TryFromStr(inp.LEN, inp.bytes)
    \/ \E propagate \in BOOLEAN : TryFromFmt(inp.LEN, << inp.bytes >>, propagate)
    \/ Repeat(inp.LEN, inp.c)

SpecCtor == InitCtor /\ [][NextCtor]_vars

(***************************************************************************)
(* AStr::try_from_fmt with its producer followed write by write.           *)
(* FmtNew is FmtBuilder::new(); WriteStr is one write_str call of the      *)
(* producer; FmtReturn is the producer returning r to write!(..)?, after   *)
(* which try_from_fmt returns the error or finalizes the builder.  A       *)
(* producer returns Err only when a write of its own returned Err (the     *)
(* contract of fmt::Display); it may return Ok whatever its writes         *)
(* returned.                                                               *)
(***************************************************************************)
FmtNew(LEN) ==
    /\ pc \in {"idle", "done"}
    /\ pc' = "writing"
    /\ builder' = FmtBuilder_new(LEN)
    /\ hist' = NoHist
    /\ call' = NoCall
    /\ UNCHANGED << inp, a >>

WriteStr(s) ==
    /\ pc = "writing"
    /\ hist.nw < MaxWrites
    /\ LET w == write_str(builder, s)
       IN /\ builder' = w.b
          /\ hist' = [hist EXCEPT
                 !.good = IF w.res = "Ok" THEN @ \o s ELSE @,
                 !.copied = @ + w.copied,
                 !.total = @ + Len(s),
                 !.failed = @ \/ w.res = "Err",
                 !.nw = @ + 1,
                 !.last = [res |-> w.res, s_len |-> Len(s), offset |-> builder.len,
                           before |-> builder.partial.bytes]]
    /\ UNCHANGED << inp, a, call, pc >>

FmtReturn(r) ==
    /\ pc = "writing"
    /\ r = "Err" => hist.failed
    /\ pc' = "done"
    /\ hist' = [hist EXCEPT !.ret = r]
    /\ call' = Call("try_from_fmt", builder.LEN, << >>,
                    IF r = "Err" THEN Err("fmt::Error") ELSE finalize(builder))
    /\ UNCHANGED << inp, a, builder >>

NextFmt ==
    \/ \E LEN \in Lens : FmtNew(LEN)
    \/ \E s \in Chunks : WriteStr(s)
    \/ \E r \in {"Ok", "Err"} : FmtReturn(r)

SpecFmt == Init /\ [][NextFmt]_vars

(***************************************************************************)
(* encode_utf8_raw applied to one character.  A char is a Unicode scalar   *)
(* value: at most U+10FFFF and no surrogate.  The characters drawn: all of *)
(* the 1- and 2-byte range and the start of the 3-byte range, both sides   *)
(* of the surrogate gap, both sides of U+10000, the top of the code space, *)
(* and a stride through the 4-byte range.                                  *)
(***************************************************************************)
EncChars ==
    Chars \cup (0..2111) \cup (55232..55295) \cup (57344..57407) \cup (65472..65599)
          \cup (1114048..1114111) \cup { 70000 + 4099 * k : k \in 0..250 }

\* the [u8; 4] the encoder returns
Array4(arr) == [kind |-> "Array", val |-> [LEN |-> 4, bytes |-> arr]]

EncodeUtf8Raw(c) == Returns("encode_utf8_raw", 4, c, Array4(encode_utf8_raw(c)))

InitEnc ==
    /\ inp \in [LEN : {0}, bytes : {<< >>}, c : EncChars]
    /\ a = default
    /\ call = NoCall
    /\ pc = "idle"
    /\ builder = NoBuilder
    /\ hist = NoHist

NextEnc == EncodeUtf8Raw(inp.c)

SpecEnc == InitEnc /\ [][NextEnc]_vars

(***************************************************************************)
(* Well-formed UTF-8, stated from the encoding itself and independently of *)
(* the validator above: the bytes split into sequences of a leading byte   *)
(* and continuation bytes, each decoding to a Unicode scalar value (not a  *)
(* surrogate, at most U+10FFFF) that needs that many bytes.                *)
(***************************************************************************)
LeadWidth(b) ==
    IF b < 128 THEN 1
    ELSE IF b < 192 THEN 0
    ELSE IF b < 224 THEN 2
    ELSE IF b < 240 THEN 3
    ELSE IF b < 248 THEN 4
    ELSE 0

LeadBits(b, w) ==
    CASE w = 1 -> b [] w = 2 -> b - 192 [] w = 3 -> b - 224 [] w = 4 -> b - 240

RECURSIVE Payload(_, _, _, _)
Payload(v, i, k, acc) ==
    IF k = 0 THEN acc ELSE Payload(v, i + 1, k - 1, acc * 64 + (v[i] - 128))

MinScalar(w) == CASE w = 1 -> 0 [] w = 2 -> 128 [] w = 3 -> 2048 [] w = 4 -> 65536

IsScalar(cp) == cp >= 0 /\ cp <= 1114111 /\ ~(cp >= 55296 /\ cp <= 57343)

RECURSIVE WellFormedFrom(_, _)
WellFormedFrom(v, i) ==
    IF i > Len(v) THEN TRUE
    ELSE LET w == LeadWidth(v[i]) IN
         /\ w # 0
         /\ i + w - 1 <= Len(v)
         /\ \A k \in 1..(w - 1) : v[i + k] >= 128 /\ v[i + k] < 192
         /\ LET cp == Payload(v, i + 1, w - 1, LeadBits(v[i], w))
            IN IsScalar(cp) /\ cp >= MinScalar(w)
         /\ WellFormedFrom(v, i + w)

WellFormed(v) == WellFormedFrom(v, 1)

\* INV-1 of one value: exactly LEN bytes, well-formed, and len() = LEN
Inv1(v) == Len(as_bytes(v)) = v.LEN /\ WellFormed(as_bytes(v)) /\ astr_len(v) = v.LEN

Building == pc \in {"writing", "done"}

(***************************************************************************)
(* The claims.                                                             *)
(***************************************************************************)

\* C1: after any sequence of the safe constructors (checked byte, slice and
\* text constructors, repeat, concat, try_from_fmt, Default), every value
\* held, the kept one and the one just returned, has exactly LEN bytes of
\* well-formed UTF-8, and len() returns LEN, the LEN the call was made with.
C1_Inv1 ==
    /\ Inv1(a)
    /\ call.out.kind = "Ok" => (Inv1(call.out.val) /\ call.out.val.LEN = call.LEN)

\* a concat of a kept non-empty value with a returned one, holding a multi-byte character
C1_Witness ==
    /\ call.op = "concat"
    /\ call.out.kind = "Ok"
    /\ a.LEN > 0
    /\ call.arg.self = a
    /\ \E i \in 1..Len(call.out.val.bytes) : call.out.val.bytes[i] >= 128

\* C2: try_from_fmt returns Ok iff the bytes the producer passed to write_str
\* are LEN in all; then no write failed and the value is the chunks joined in
\* write order; otherwise it returns fmt::Error, never a value.
C2_Exact ==
    pc = "done" =>
        /\ (call.out.kind = "Ok") <=> (hist.total = builder.LEN)
        /\ call.out.kind = "Ok" =>
               /\ ~hist.failed
               /\ call.out.val.LEN = builder.LEN
               /\ as_bytes(call.out.val) = hist.good
        /\ call.out.kind # "Ok" => (call.out.kind = "fmt::Error" /\ call.out.val = NoVal)

\* an exact fill made of several non-empty writes
C2_Witness ==
    /\ pc = "done"
    /\ call.out.kind = "Ok"
    /\ hist.nw >= 2
    /\ hist.last.s_len > 0
    /\ hist.last.offset > 0

\* C3: for a well-formed text of byte length LEN, try_from_utf8 of its bytes
\* returns Ok, and as_str and as_bytes of the value are the text, byte for byte.
C3_RoundTrip ==
    (call.op = "try_from_utf8" /\ WellFormed(call.arg) /\ Len(call.arg) = call.LEN) =>
        /\ call.out.kind = "Ok"
        /\ as_str(call.out.val) = call.arg
        /\ as_bytes(call.out.val) = call.arg

\* the round trip of a 4-byte character
C3_Witness ==
    /\ call.op = "try_from_utf8"
    /\ call.arg = << 240, 159, 152, 128 >>
    /\ call.LEN = 4
    /\ call.out.kind = "Ok"

ByteCtors == {"try_from_utf8", "try_from_utf8_mut", "try_from_utf8_array_ref",
              "try_from_utf8_array_mut"}

\* C4: a byte-based fallible constructor checks the length first: a length
\* other than LEN gives the Slice error whatever the content; length LEN and
\* malformed gives the Utf8 error; a malformed input is never accepted; an
\* accepted input is the value, whole.
C4_Outcome ==
    call.op \in ByteCtors =>
        /\ Len(call.arg) # call.LEN => call.out.kind = "Slice"
        /\ (Len(call.arg) = call.LEN /\ ~WellFormed(call.arg)) => call.out.kind = "Utf8"
        /\ ~WellFormed(call.arg) => call.out.kind # "Ok"
        /\ call.out.kind = "Ok" => (as_bytes(call.out.val) = call.arg /\ Len(call.arg) = call.LEN)
        /\ call.out.kind \in {"Ok", "Slice", "Utf8"}

\* an input that is both too long and malformed
C4_Witness ==
    /\ call.op = "try_from_utf8_mut"
    /\ Len(call.arg) > call.LEN
    /\ ~WellFormed(call.arg)
    /\ call.out.kind = "Slice"

\* C5: repeat(c), for LEN a multiple of the encoded length L of c, returns the
\* LEN bytes whose i-th byte is byte (i mod L) of the UTF-8 encoding of c;
\* for any other LEN it panics and returns no value.
C5_Repeat ==
    call.op = "repeat" =>
        LET enc == StdEnc(call.arg)
            L == Len(enc)
        IN IF call.LEN % L = 0
           THEN /\ call.out.kind = "Ok"
                /\ call.out.val.LEN = call.LEN
                /\ Len(as_bytes(call.out.val)) = call.LEN
                /\ \A i \in 0..(call.LEN - 1) : as_bytes(call.out.val)[i + 1] = enc[(i % L) + 1]
           ELSE call.out = Panic

\* a 2-byte character tiled twice
C5_Witness ==
    /\ call.op = "repeat"
    /\ call.arg = 228
    /\ call.LEN = 4
    /\ call.out.kind = "Ok"

\* C6: concat with RET_LEN = A + B returns a's bytes in [0, A) and b's bytes
\* in [A, A + B), well-formed as a whole; with any other RET_LEN it panics.
C6_Concat ==
    call.op = "concat" =>
        LET A == call.arg.self.LEN
            B == call.arg.other.LEN
            r == as_bytes(call.out.val)
        IN IF call.LEN = A + B
           THEN /\ call.out.kind = "Ok"
                /\ call.out.val.LEN = A + B
                /\ Len(r) = A + B
                /\ SubSeq(r, 1, A) = as_bytes(call.arg.self)
                /\ SubSeq(r, A + 1, A + B) = as_bytes(call.arg.other)
                /\ WellFormed(r)
           ELSE call.out = Panic

\* two different non-empty operands joined
C6_Witness ==
    /\ call.op = "concat"
    /\ call.out.kind = "Ok"
    /\ call.arg.self.LEN > 0
    /\ call.arg.other.LEN > 0
    /\ as_bytes(call.arg.self) # as_bytes(call.arg.other)

TryCtors == ByteCtors \cup {"try_from_str_ref", "try_from_str_mut", "try_from_str", "try_from_fmt"}
PanickingCtors == {"from_utf8", "from_utf8_mut", "from_str_ref", "from_str_mut"}

RECURSIVE SumLen(_)
SumLen(chunks) == IF chunks = << >> THEN 0 ELSE Len(Head(chunks)) + SumLen(Tail(chunks))

\* the input of the last call has the wrong length or is malformed
BadInput ==
    IF call.op = "try_from_fmt"
    THEN SumLen(call.arg.chunks) # call.LEN
    ELSE Len(call.arg) # call.LEN \/ ~WellFormed(call.arg)

\* C7 as claimed: no constructor over runtime input panics; each reports a
\* wrong-length or malformed input as an error value.
C7_NoPanic ==
    call.op \in TryCtors \cup PanickingCtors =>
        /\ call.out.kind # "Panic"
        /\ BadInput => call.out.kind \in {"Slice", "Utf8", "fmt::Error"}

\* C7 as amended: the try_ constructors (and TryFrom, FromStr, try_from_fmt)
\* never panic and report a bad input as an error value; from_utf8,
\* from_utf8_mut, from_str_ref and from_str_mut panic exactly on a bad input.
C7_TryNeverPanics ==
    /\ call.op \in TryCtors =>
           /\ call.out.kind # "Panic"
           /\ BadInput <=> call.out.kind \in {"Slice", "Utf8", "fmt::Error"}
    /\ call.op \in PanickingCtors => (BadInput <=> call.out = Panic)

\* a text constructor handed a text of the wrong length returns the error
C7_Witness ==
    /\ call.op = "try_from_str_mut"
    /\ Len(call.arg) # call.LEN
    /\ call.out.kind = "Slice"

\* C8: a write that does not fit returns Err; once a write has returned Err,
\* every later write returns Err, empty chunks included, and try_from_fmt
\* returns fmt::Error whatever the producer returns.
C8_Sticky ==
    Building =>
        /\ (hist.last.res # "none" /\ hist.last.offset + hist.last.s_len > builder.LEN) =>
               hist.last.res = "Err"
        /\ hist.failed => hist.last.res = "Err"
        /\ (pc = "done" /\ hist.failed) => call.out.kind = "fmt::Error"

\* a producer that ignored a failed write, wrote an empty chunk and returned Ok
C8_Witness ==
    /\ pc = "done"
    /\ hist.failed
    /\ hist.ret = "Ok"
    /\ hist.nw >= 3
    /\ hist.last.s_len = 0
    /\ hist.copied > 0

\* C9 as claimed: the cursor is the number of bytes copied so far, and a
\* write that fails leaves the cursor where it was.
C9_CursorIsCopied ==
    Building =>
        /\ builder.len = hist.copied
        /\ hist.last.res = "Err" => builder.len = hist.last.offset

\* C9 as amended: until a write fails the cursor is the number of bytes
\* copied, and a write that succeeds moves it by the chunk length, the chunk
\* copied; a write that fails copies nothing and still moves the cursor to
\* cursor + chunk length, beyond LEN (it leaves it only when that sum
\* overflows); from then on the cursor exceeds LEN and the bytes copied.
C9_CursorAdvancesFirst ==
    Building =>
        /\ hist.copied = Len(hist.good)
        /\ ~hist.failed => builder.len = hist.copied
        /\ hist.failed => (builder.len > builder.LEN /\ hist.copied <= builder.LEN)
        /\ hist.last.res = "Ok" => builder.len = hist.last.offset + hist.last.s_len
        /\ hist.last.res = "Err" =>
               builder.len = IF hist.last.offset + hist.last.s_len > USIZE_MAX
                             THEN hist.last.offset
                             ELSE hist.last.offset + hist.last.s_len

\* a failed write after a successful one: the cursor is past LEN, beyond the bytes copied
C9_Witness ==
    /\ pc = "writing"
    /\ hist.last.res = "Err"
    /\ hist.copied > 0
    /\ builder.len = hist.last.offset + hist.last.s_len
    /\ builder.len > hist.copied

\* C10: the scratch buffer is the chunks written with Ok, in order, then NUL
\* bytes only, and well-formed as a whole; a write that fails changes no
\* byte, one that succeeds changes bytes in [cursor, cursor + chunk length) only.
C10_Buffer ==
    Building =>
        LET bytes == builder.partial.bytes
            n == Len(hist.good)
        IN /\ Len(bytes) = builder.LEN
           /\ n <= builder.LEN
           /\ SubSeq(bytes, 1, n) = hist.good
           /\ \A i \in (n + 1)..Len(bytes) : bytes[i] = 0
           /\ WellFormed(bytes)
           /\ hist.last.res = "Err" => bytes = hist.last.before
           /\ hist.last.res = "Ok" =>
                  \A i \in 1..Len(bytes) :
                      (i <= hist.last.offset \/ i > hist.last.offset + hist.last.s_len) =>
                          bytes[i] = hist.last.before[i]

\* a multi-byte chunk written behind an earlier one, placeholder bytes left
C10_Witness ==
    /\ pc = "writing"
    /\ hist.last.res = "Ok"
    /\ hist.last.offset > 0
    /\ hist.last.s_len >= 2
    /\ Len(hist.good) < builder.LEN

\* the tag a leading byte of an L-byte sequence carries, and the bits it leaves
\* for the payload: 0xxxxxxx, 110xxxxx, 1110xxxx, 11110xxx
LeadTag(L) == CASE L = 1 -> 0 [] L = 2 -> 192 [] L = 3 -> 224 [] L = 4 -> 240
LeadRoom(L) == CASE L = 1 -> 128 [] L = 2 -> 32 [] L = 3 -> 16 [] L = 4 -> 8

\* the number of bytes the standard gives a scalar value
StdLen(c) == IF c <= 127 THEN 1 ELSE IF c <= 2047 THEN 2 ELSE IF c <= 65535 THEN 3 ELSE 4

RECURSIVE Pow64(_)
Pow64(k) == IF k = 0 THEN 1 ELSE 64 * Pow64(k - 1)

\* the k-th 6-bit group of c counted from the least significant one (k = 0: the
\* last byte's)
RECURSIVE Group6(_, _)
Group6(c, k) == IF k = 0 THEN c % 64 ELSE Group6(c \div 64, k - 1)

\* C11: encode_utf8_raw(c) is a 4-byte array; its first len_utf8(c) bytes are
\* the standard UTF-8 encoding of c: the leading byte carries the tag of that
\* length and the top payload bits, every following byte the tag 10xxxxxx
\* and the next 6 bits of c, most significant group first; they decode back
\* to c as well-formed UTF-8; the remaining bytes are 0.
C11_Encoder ==
    call.op = "encode_utf8_raw" =>
        LET c == call.arg
            r == call.out.val.bytes
            L == len_utf8(c)
            enc == SubSeq(r, 1, L)
        IN /\ Len(r) = 4
           /\ L = StdLen(c)
           /\ r[1] >= LeadTag(L) /\ r[1] < LeadTag(L) + LeadRoom(L)
           /\ r[1] - LeadTag(L) = c \div Pow64(L - 1)
           /\ c \div Pow64(L - 1) < LeadRoom(L)
           /\ \A k \in 2..L : r[k] >= 128 /\ r[k] < 192 /\ r[k] - 128 = Group6(c, L - k)
           /\ \A k \in (L + 1)..4 : r[k] = 0
           /\ WellFormed(enc)
           /\ Payload(enc, 2, L - 1, LeadBits(enc[1], L)) = c
           /\ c \in Chars => enc = StdEnc(c)

\* a 4-byte character with payload bits in every group
C11_Witness ==
    /\ call.op = "encode_utf8_raw"
    /\ call.arg = 128512
    /\ call.out.val.bytes = << 240, 159, 152, 128 >>

====
